---- MODULE Spec2Model ----
(***************************************************************************)
(* Model of ipythontools/jupyter2article.py: the cell matcher              *)
(* (ismarkercell, find_cell), the cell converters and                      *)
(* NotebookConverter.convert.                                              *)
(*                                                                         *)
(* A text line is a sequence of one-character strings, so that lstrip,     *)
(* the regular expressions and the appended line breaks are computed       *)
(* character by character, as Python does.                                 *)
(***************************************************************************)
EXTENDS Integers, Sequences, FiniteSets, TLC

\* ------------------------------------------------------------------ bounds
MaxCells == 3       \* longest notebook (number of cells) of a conversion
MaxMarker == 4      \* largest integer marker tried, besides the default stop
MaxFindCells == 3   \* longest notebook handed to find_cell alone
MaxCalls == 2       \* converter applications to one cell
MaxTitleLen == 2    \* longest generated title, in characters

\* ------------------------------------------------------- program constants
\* default of the stop parameter of convert
DefaultStop == 100000000
\* default of the start parameter of convert
DefaultStart == 0

NL == "\n"

\* ------------------------------------------------------------ Python strings
\* str.lstrip(chars): drop the longest prefix made of characters of chars
RECURSIVE lstrip(_, _)
lstrip(s, chars) ==
    IF s # <<>> /\ Head(s) \in chars THEN lstrip(Tail(s), chars) ELSE s

\* the argument '# ' of both lstrip calls of ismarkercell
HashSpace == {"#", " "}

\* characters the regular expression class \s matches
Whitespace == {" ", NL, "\t"}

\* characters the regular expression class \w matches (those the model uses)
WordChars == {"a", "b", "e", "d", "h", "i", "l", "n", "o", "p", "r", "s", "t",
              "u", "x", "A", "M", "P", "R", "X", "1", "2", "_"}

\* str.lower() on one character
lowerchar(c) ==
    CASE c = "A" -> "a"
      [] c = "M" -> "m"
      [] c = "P" -> "p"
      [] c = "R" -> "r"
      [] c = "X" -> "x"
      [] OTHER -> c

\* str.lower()
lower(s) == [i \in 1..Len(s) |-> lowerchar(s[i])]

\* re.sub(r'\W+', '', s): every run of non-word characters is removed
RECURSIVE resubNonWord(_)
resubNonWord(s) ==
    IF s = <<>> THEN <<>>
    ELSE IF Head(s) \in WordChars THEN <<Head(s)>> \o resubNonWord(Tail(s))
    ELSE resubNonWord(Tail(s))

\* ''.join(lines)
RECURSIVE join(_)
join(lines) == IF lines = <<>> THEN <<>> ELSE Head(lines) \o join(Tail(lines))

\* length of the longest prefix of s made of characters of chars
RECURSIVE spanLen(_, _)
spanLen(s, chars) ==
    IF s # <<>> /\ Head(s) \in chars THEN 1 + spanLen(Tail(s), chars) ELSE 0

\* s[n:] for 0 <= n
dropFirst(s, n) == SubSeq(s, n + 1, Len(s))

\* ------------------------------------------------------------------- cells
\* A cell is a record:
\*   cell_type  the value of cell['cell_type']
\*   key        which of the keys 'source' / 'input' the cell has ("none":
\*              neither)
\*   source     the list of lines under that key
\*   outputs    cell['outputs']: records [has_text, text]
\*   level      cell['level']
mkcell(t, k, src, outs, lvl) ==
    [cell_type |-> t, key |-> k, source |-> src, outputs |-> outs, level |-> lvl]

\* Result of a call: err = "none" and a value, or the exception raised
Ok(v) == [err |-> "none", val |-> v]
Raise(e) == [err |-> e, val |-> 0]

\* ------------------------------------------------------------ cell matcher
\* the comparison done without stripping the marker
ismarkercell_rawmarker(cell, start) ==
    IF cell.key = "none" THEN [err |-> "ValueError", val |-> FALSE]
    ELSE IF Len(cell.source) = 0 THEN [err |-> "IndexError", val |-> FALSE]
    ELSE IF cell.key = "source" /\ cell.cell_type = "markdown"
         THEN Ok(lstrip(cell.source[1], HashSpace) = start)
         ELSE Ok(cell.source[1] = start)

\* ismarkercell(cell, start): compare the first line of the cell with start.
\* cell['source'][0] of an empty list raises IndexError.
ismarkercell(cell, start) ==
    IF cell.key = "source" THEN
        IF Len(cell.source) = 0 THEN [err |-> "IndexError", val |-> FALSE]
        ELSE IF cell.cell_type = "markdown"
             THEN Ok(lstrip(cell.source[1], HashSpace) = lstrip(start, HashSpace))
             ELSE Ok(cell.source[1] = start)
    ELSE IF cell.key = "input" THEN
        IF Len(cell.source) = 0 THEN [err |-> "IndexError", val |-> FALSE]
        ELSE Ok(cell.source[1] = start)
    ELSE [err |-> "ValueError", val |-> FALSE]

\* A marker is [kind, n, s]: kind "int" with the integer n, kind "str" with
\* the text s, kind "other" for a value that is neither (int() raises).
IntMarker(n) == [kind |-> "int", n |-> n, s |-> <<>>]
StrMarker(s) == [kind |-> "str", n |-> 0, s |-> s]
OtherMarker == [kind |-> "other", n |-> 0, s |-> <<>>]

\* the loop of find_cell from 0-based index i on
RECURSIVE scan(_, _, _, _)
scan(cells, s, skip, i) ==
    IF i >= Len(cells) THEN Raise("NotFound")
    ELSE LET m == ismarkercell(cells[i + 1], s)
         IN IF m.err # "none" THEN Raise(m.err)
            ELSE IF m.val THEN Ok(i + skip)
            ELSE scan(cells, s, skip, i + 1)

\* find_cell with the skip added to an integer marker too
find_cell_skipint(cells, marker, skip) ==
    IF marker.kind = "str" THEN scan(cells, marker.s, skip, 0)
    ELSE IF marker.kind = "int" THEN Ok(marker.n + skip)
    ELSE Raise("InvalidMarker")

\* NotebookConverter.find_cell(cells, marker, skip)
find_cell(cells, marker, skip) ==
    IF marker.kind = "str" THEN scan(cells, marker.s, skip, 0)
    ELSE IF marker.kind = "int" THEN Ok(marker.n)
    ELSE Raise("InvalidMarker")

\* -------------------------------------------------------------- converters
\* Result of a converter call: the exception raised or "none", the lines the
\* returned value yields when iterated, and the cell as the call leaves it.
Lines(ls, cell) == [err |-> "none", lines |-> ls, cell |-> cell]
Fails(e, cell) == [err |-> e, lines |-> <<>>, cell |-> cell]

\* text[-1] += '\n' on a non-empty list of lines
addNewlineToLast(text) == [text EXCEPT ![Len(text)] = @ \o <<NL>>]

\* IgnoreConverter.__call__
IgnoreConverter(cell) == Lines(<<>>, cell)

\* a literal copy that forgets the line break
LiteralSourceConverter_nobreak(cell) ==
    IF cell.key # "source" THEN Fails("KeyError", cell)
    ELSE IF Len(cell.source) > 0
         THEN Lines(cell.source, cell)
         ELSE Lines(<< <<NL>> >>, cell)

\* LiteralSourceConverter.__call__: text is the cell's own list, so the
\* line break is appended to the cell's last source line in place; the
\* string '\n' returned for an empty list yields one line when iterated.
LiteralSourceConverter(cell) ==
    IF cell.key # "source" THEN Fails("KeyError", cell)
    ELSE IF Len(cell.source) > 0
         THEN LET text == addNewlineToLast(cell.source)
              IN Lines(text, [cell EXCEPT !.source = text])
         ELSE Lines(<< <<NL>> >>, cell)

\* the marker of the 'code' entry of cellconverters: '# output->LaTeX'
CodeMarker == <<"#", " ", "o", "u", "t", "p", "u", "t", "-", ">", "L", "a", "T", "e", "X">>

\* x in list
InList(x, list) == \E i \in 1..Len(list) : list[i] = x

\* the loop over cell['outputs']: text.extend(out['text']) where there is one
RECURSIVE collectText(_)
collectText(outs) ==
    IF outs = <<>> THEN <<>>
    ELSE (IF Head(outs).has_text THEN Head(outs).text ELSE <<>>)
         \o collectText(Tail(outs))

\* the output is copied whether or not the marker is there
MarkedCodeOutputConverter_always(marker, cell) ==
    IF cell.key = "none" THEN Fails("KeyError", cell)
    ELSE LET text == collectText(cell.outputs)
         IN IF Len(text) > 0 THEN Lines(addNewlineToLast(text), cell)
            ELSE Lines(text, cell)

\* MarkedCodeOutputConverter(marker).__call__
MarkedCodeOutputConverter(marker, cell) ==
    IF cell.key = "none" THEN Fails("KeyError", cell)
    ELSE LET source == cell.source
             text == IF InList(marker, source) \/ InList(marker \o <<NL>>, source)
                     THEN collectText(cell.outputs)
                     ELSE <<>>
         IN IF Len(text) > 0 THEN Lines(addNewlineToLast(text), cell)
            ELSE Lines(text, cell)

\* the default of latexlevels
latexlevels ==
    <<"chapter", "section", "subsection", "subsubsection", "paragraph", "subparagraph">>

\* list[i] of Python: a negative index counts from the end
pyindex(list, i) ==
    IF 0 <= i /\ i < Len(list) THEN Ok(list[i + 1])
    ELSE IF i < 0 /\ -i <= Len(list) THEN Ok(list[Len(list) + i + 1])
    ELSE Raise("IndexError")

\* '\\{0}{{{1}}}\n'.format(keyword, title)
headingline(keyword, title) == <<"\\", keyword, "{">> \o title \o <<"}", NL>>

\* cleantitle = re.sub(r'\W+', '', title);
\* '\\label{{sect:{0}}}\n'.format(cleantitle.lower())
\* (LatexHeadingConverter)
labelline(title) ==
    <<"\\label{sect:">> \o lower(resubNonWord(title)) \o <<"}", NL>>

\* a label that keeps the non-word characters
mdlabelline_keepall(title) == <<"\\label{sect:">> \o lower(title) \o <<"}", NL>>

\* the same two statements in MinimalMarkdownConverter
mdlabelline(title) ==
    <<"\\label{sect:">> \o lower(resubNonWord(title)) \o <<"}", NL>>

\* a heading converter that takes the level as the index into latexlevels
LatexHeadingConverter_levelindex(cell) ==
    IF cell.key # "source" THEN Fails("KeyError", cell)
    ELSE LET title == join(cell.source)
             kw == pyindex(latexlevels, cell.level)
         IN IF kw.err # "none" THEN Fails(kw.err, cell)
            ELSE Lines(<< <<NL>>, <<NL>>, headingline(kw.val, title),
                          labelline(title), <<NL>> >>, cell)

\* LatexHeadingConverter.__call__
LatexHeadingConverter(cell) ==
    IF cell.key # "source" THEN Fails("KeyError", cell)
    ELSE LET title == join(cell.source)
             kw == pyindex(latexlevels, cell.level - 1)
         IN IF kw.err # "none" THEN Fails(kw.err, cell)
            ELSE Lines(<< <<NL>>, <<NL>>, headingline(kw.val, title),
                          labelline(title), <<NL>> >>, cell)

\* header.match(line) for header = re.compile('\s*#+\s*'): the end of the
\* match and the number of '#' in it, or no match
headermatch(line) ==
    LET ws1 == spanLen(line, Whitespace)
        hashes == spanLen(dropFirst(line, ws1), {"#"})
        ws2 == spanLen(dropFirst(line, ws1 + hashes), Whitespace)
    IN [matched |-> hashes > 0, end |-> ws1 + hashes + ws2, count |-> hashes]

\* the body of the loop of MinimalMarkdownConverter for one line
mdline(line) ==
    LET match == headermatch(line)
    IN IF match.matched THEN
          LET title0 == dropFirst(line, match.end)
          IN IF title0 = <<>> THEN [err |-> "IndexError", lines |-> <<>>]
             ELSE LET title == IF title0[Len(title0)] = NL
                               THEN SubSeq(title0, 1, Len(title0) - 1)
                               ELSE title0
                      kw == pyindex(latexlevels, match.count - 1)
                  IN IF kw.err # "none" THEN [err |-> kw.err, lines |-> <<>>]
                     ELSE [err |-> "none",
                           lines |-> <<headingline(kw.val, title), mdlabelline(title)>>]
       ELSE [err |-> "none", lines |-> <<line>>]

\* the loop over the lines of a markdown cell
RECURSIVE mdlines(_)
mdlines(text) ==
    IF text = <<>> THEN [err |-> "none", lines |-> <<>>]
    ELSE LET first == mdline(Head(text))
         IN IF first.err # "none" THEN first
            ELSE LET rest == mdlines(Tail(text))
                 IN IF rest.err # "none" THEN rest
                    ELSE [err |-> "none", lines |-> first.lines \o rest.lines]

\* MinimalMarkdownConverter.__call__
MinimalMarkdownConverter(cell) ==
    IF cell.key # "source" THEN Fails("KeyError", cell)
    ELSE IF Len(cell.source) = 0 THEN Lines(<< <<NL>> >>, cell)
    ELSE LET out == mdlines(cell.source)
         IN IF out.err # "none" THEN Fails(out.err, cell)
            ELSE Lines(out.lines \o << <<NL>>, <<NL>> >>, cell)

\* a table that passes over the cell types it does not know
cellconverters_skipunknown(cell) ==
    CASE cell.cell_type = "code" -> MarkedCodeOutputConverter(CodeMarker, cell)
      [] cell.cell_type = "heading" -> LatexHeadingConverter(cell)
      [] cell.cell_type = "markdown" -> MinimalMarkdownConverter(cell)
      [] cell.cell_type = "raw" -> LiteralSourceConverter(cell)
      [] OTHER -> Lines(<<>>, cell)

\* the table of the older module: markdown cells are copied literally
cellconverters_legacy(cell) ==
    CASE cell.cell_type = "code" -> MarkedCodeOutputConverter(CodeMarker, cell)
      [] cell.cell_type = "heading" -> LatexHeadingConverter(cell)
      [] cell.cell_type = "markdown" -> LiteralSourceConverter(cell)
      [] cell.cell_type = "raw" -> LiteralSourceConverter(cell)
      [] OTHER -> Fails("KeyError", cell)

\* NotebookConverter.cellconverters[cell['cell_type']](cell)
cellconverters(cell) ==
    CASE cell.cell_type = "code" -> MarkedCodeOutputConverter(CodeMarker, cell)
      [] cell.cell_type = "heading" -> LatexHeadingConverter(cell)
      [] cell.cell_type = "markdown" -> MinimalMarkdownConverter(cell)
      [] cell.cell_type = "raw" -> LiteralSourceConverter(cell)
      [] OTHER -> Fails("KeyError", cell)

\* ------------------------------------------------------------------- state
VARIABLES
    \* NotebookConverter.convert
    nbcells,      \* cells: the cells of the notebook, as loaded
    startM,       \* the start argument
    stopM,        \* the stop argument
    pc,           \* where convert is
    start,        \* start, once resolved
    stop,         \* stop, once resolved and clamped
    sel,          \* cells[start:stop]
    idx,          \* number of cells of sel converted so far
    file_before,  \* the file_before argument and the lines of that file
    file_after,   \* the file_after argument and the lines of that file
    out,          \* the lines written to outfile
    sink,         \* outfile: "unopened", "open" or "closed"
    err,          \* the exception convert ended with, or "none"
    errline,      \* the line a ValueError carries
    \* find_cell / ismarkercell called on their own
    fcells, fmarker, fcall,
    \* one cell handed to the converters
    ccell, chist,
    \* a title given to both heading converters
    ltitle, llevel, lhead, lmd

cvars == <<nbcells, startM, stopM, pc, start, stop, sel, idx, file_before,
           file_after, out, sink, err, errline>>
fvars == <<fcells, fmarker, fcall>>
kvars == <<ccell, chist>>
lvars == <<ltitle, llevel, lhead, lmd>>
vars == <<cvars, fvars, kvars, lvars>>

\* sequences over S of length at most n
SeqUpTo(S, n) == UNION {[1..k -> S] : k \in 0..n}

\* ------------------------------------------------------------------ inputs
Methods == <<"M", "e", "t", "h", "o", "d", "s">>
H2Methods == <<"#", "#", " ">> \o Methods
ResultsPart2 ==
    <<"R", "e", "s", "u", "l", "t", "s", ",", " ", "P", "a", "r", "t", " ", "2">>
X1 == <<"X", "=", "1">>

\* a character the encoding of the output file cannot represent
Unencodable == "U+2603"

TextOut(ls) == [has_text |-> TRUE, text |-> ls]
NoTextOut == [has_text |-> FALSE, text |-> <<>>]

\* cells of the notebooks given to convert
CellPool ==
    { mkcell("markdown", "source", <<H2Methods>>, <<>>, 0),
      mkcell("markdown", "source", <<>>, <<>>, 0),
      mkcell("raw", "source", <<<<"e">>>>, <<>>, 0),
      mkcell("raw", "source", <<<<"a", Unencodable>>, <<"b">>>>, <<>>, 0),
      mkcell("code", "source", <<CodeMarker>>, <<TextOut(<<X1>>)>>, 0),
      mkcell("heading", "source", <<H2Methods>>, <<>>, 2),
      mkcell("unknown", "source", <<<<"x">>>>, <<>>, 0) }

TextMarkers == {StrMarker(Methods), StrMarker(<<"e">>)}

StartMarkers == {IntMarker(n) : n \in 0..MaxMarker} \cup TextMarkers \cup {OtherMarker}
StopMarkers == StartMarkers \cup {IntMarker(DefaultStop)}

\* file_before / file_after: None, or the lines of the file
NoFile == [given |-> FALSE, lines |-> <<>>]
File(ls) == [given |-> TRUE, lines |-> ls]
BeforeFiles == {NoFile, File(<<<<"p", NL>>, <<"q", NL>>>>), File(<<<<"p", NL>>, <<Unencodable>>>>)}
AfterFiles == {NoFile, File(<<<<"s", NL>>>>), File(<<<<Unencodable>>, <<"s", NL>>>>)}

\* ------------------------------------------------------------------ convert
\* the stop left as the marker gave it
clampstop_none(s, n) == s

\* if stop > len(cells): stop = len(cells)
clampstop(s, n) == IF s > n THEN n ELSE s

\* a check that never fails
startafterstop_never(a, b) == FALSE

\* if start > stop: raise Exception('Start cell found after end cell')
startafterstop(a, b) == a > b

\* list[a:b] for 0 <= a and 0 <= b: an end past the list is the end of the list
pyslice(list, a, b) == SubSeq(list, a + 1, IF b > Len(list) THEN Len(list) ELSE b)

\* out.write(line) raises UnicodeEncodeError
unencodable(line) == \E i \in 1..Len(line) : line[i] = Unencodable

\* the lines a loop of out.write(line) writes before the first one that fails
RECURSIVE written(_)
written(lines) ==
    IF lines = <<>> \/ unencodable(Head(lines)) THEN <<>>
    ELSE <<Head(lines)>> \o written(Tail(lines))

\* whether such a loop fails, and on which line
writefails(lines) == Len(written(lines)) < Len(lines)
failedline(lines) == lines[Len(written(lines)) + 1]

\* convert is entered: nothing resolved, nothing written
cEntry ==
    /\ pc = "resolve"
    /\ start = 0
    /\ stop = 0
    /\ sel = <<>>
    /\ idx = 0
    /\ file_before = NoFile
    /\ file_after = NoFile
    /\ out = <<>>
    /\ sink = "unopened"
    /\ err = "none"
    /\ errline = <<>>

cInit ==
    /\ nbcells \in SeqUpTo(CellPool, MaxCells)
    /\ startM \in StartMarkers
    /\ stopM \in StopMarkers
    /\ cEntry

cIdle ==
    /\ nbcells = <<>> /\ startM = IntMarker(DefaultStart) /\ stopM = IntMarker(DefaultStop)
    /\ pc = "idle" /\ start = 0 /\ stop = 0 /\ sel = <<>> /\ idx = 0
    /\ file_before = NoFile /\ file_after = NoFile /\ out = <<>>
    /\ sink = "unopened" /\ err = "none" /\ errline = <<>>

\* an exception leaves convert and outfile stays as it is
failwith_leaveopen(e, line) ==
    /\ pc' = "failed"
    /\ err' = e
    /\ errline' = line
    /\ sink' = sink

\* an exception leaves convert; inside the with block outfile is closed
failwith(e, line) ==
    /\ pc' = "failed"
    /\ err' = e
    /\ errline' = line
    /\ sink' = IF sink = "open" THEN "closed" ELSE sink

\* start = self.find_cell(cells, start, skip=1) ... cells = cells[start:stop]
ResolveRange ==
    /\ pc = "resolve"
    /\ LET r1 == find_cell(nbcells, startM, 1)
           r2 == find_cell(nbcells, stopM, 0)
           clamped == clampstop(r2.val, Len(nbcells))
       IN IF r1.err # "none"
          THEN failwith(r1.err, <<>>) /\ UNCHANGED <<start, stop, sel>>
          ELSE IF r2.err # "none"
          THEN failwith(r2.err, <<>>) /\ start' = r1.val /\ UNCHANGED <<stop, sel>>
          ELSE IF startafterstop(r1.val, clamped)
          THEN failwith("RangeError", <<>>) /\ start' = r1.val /\ stop' = clamped
               /\ UNCHANGED sel
          ELSE /\ start' = r1.val
               /\ stop' = clamped
               /\ sel' = pyslice(nbcells, r1.val, clamped)
               /\ pc' = "open"
               /\ UNCHANGED <<err, errline, sink>>
    /\ UNCHANGED <<nbcells, startM, stopM, idx, file_before, file_after, out>>

\* with open(outfile, 'w') as out:
OpenSink ==
    /\ pc = "open"
    /\ sink' = "open"
    /\ pc' = "prefix"
    /\ UNCHANGED <<nbcells, startM, stopM, start, stop, sel, idx, file_before,
                   file_after, out, err, errline>>

\* if file_before is not None: ... for line in f: out.write(line)
WritePrefix ==
    /\ pc = "prefix"
    /\ \E f \in BeforeFiles :
        /\ file_before' = f
        /\ out' = out \o written(f.lines)
        /\ IF writefails(f.lines)
           THEN failwith("ValueError", failedline(f.lines))
           ELSE pc' = "cells" /\ UNCHANGED <<err, errline, sink>>
    /\ UNCHANGED <<nbcells, startM, stopM, start, stop, sel, idx, file_after>>

\* a turn of the loop that puts the lines of the cell before what is written
ConvertCell_prepend ==
    /\ pc = "cells"
    /\ idx < Len(sel)
    /\ LET r == cellconverters(sel[idx + 1])
       IN IF r.err # "none"
          THEN failwith(r.err, <<>>) /\ UNCHANGED <<sel, idx, out>>
          ELSE /\ sel' = [sel EXCEPT ![idx + 1] = r.cell]
               /\ out' = written(r.lines) \o out
               /\ IF writefails(r.lines)
                  THEN failwith("ValueError", failedline(r.lines)) /\ UNCHANGED idx
                  ELSE idx' = idx + 1 /\ UNCHANGED <<pc, err, errline, sink>>
    /\ UNCHANGED <<nbcells, startM, stopM, start, stop, file_before, file_after>>

\* one turn of: for cell in cells: lines = ...; for line in lines: out.write(line)
ConvertCell ==
    /\ pc = "cells"
    /\ idx < Len(sel)
    /\ LET r == cellconverters(sel[idx + 1])
       IN IF r.err # "none"
          THEN failwith(r.err, <<>>) /\ UNCHANGED <<sel, idx, out>>
          ELSE /\ sel' = [sel EXCEPT ![idx + 1] = r.cell]
               /\ out' = out \o written(r.lines)
               /\ IF writefails(r.lines)
                  THEN failwith("ValueError", failedline(r.lines)) /\ UNCHANGED idx
                  ELSE idx' = idx + 1 /\ UNCHANGED <<pc, err, errline, sink>>
    /\ UNCHANGED <<nbcells, startM, stopM, start, stop, file_before, file_after>>

\* if file_after is not None: ... for line in f: out.write(line); the with
\* block ends and closes outfile
WriteSuffix ==
    /\ pc = "cells"
    /\ idx = Len(sel)
    /\ \E f \in AfterFiles :
        /\ file_after' = f
        /\ out' = out \o written(f.lines)
        /\ IF writefails(f.lines)
           THEN failwith("ValueError", failedline(f.lines))
           ELSE pc' = "done" /\ sink' = "closed" /\ UNCHANGED <<err, errline>>
    /\ UNCHANGED <<nbcells, startM, stopM, start, stop, sel, idx, file_before>>

\* --------------------------------------------- find_cell called on its own
FindPool ==
    { mkcell("markdown", "source", <<H2Methods>>, <<>>, 0),
      mkcell("markdown", "source", <<<<"M", NL>>, <<"x">>>>, <<>>, 0),
      mkcell("markdown", "source", <<>>, <<>>, 0),
      mkcell("raw", "source", <<H2Methods>>, <<>>, 0),
      mkcell("raw", "source", <<Methods>>, <<>>, 0),
      mkcell("code", "input", <<<<"#", " ", "M">>>>, <<>>, 0),
      mkcell("markdown", "source", <<<<"#", " ", "M">>, <<"x">>>>, <<>>, 0) }

FindMarkers ==
    { StrMarker(H2Methods), StrMarker(Methods), StrMarker(<<"#", " ", "M">>),
      StrMarker(<<"M">>), StrMarker(<<" ", "M", NL>>), StrMarker(<<"z">>),
      IntMarker(2), OtherMarker }

NoCall == [op |-> "none", skip |-> 0, index |-> 0, res |-> Raise("none")]

fInit == fcells \in SeqUpTo(FindPool, MaxFindCells) /\ fmarker \in FindMarkers /\ fcall = NoCall
fIdle == fcells = <<>> /\ fmarker = OtherMarker /\ fcall = NoCall

\* find_cell(cells, marker, skip) for the two values of skip convert uses
FindCell ==
    /\ fcall.op = "none"
    /\ \E skip \in {0, 1} :
         fcall' = [op |-> "find_cell", skip |-> skip, index |-> 0,
                   res |-> find_cell(fcells, fmarker, skip)]
    /\ UNCHANGED <<fcells, fmarker>>

\* ismarkercell(cells[i], marker) for one cell of the notebook
IsMarkerCell ==
    /\ fcall.op = "none"
    /\ fmarker.kind = "str"
    /\ \E i \in 1..Len(fcells) :
         fcall' = [op |-> "ismarkercell", skip |-> 0, index |-> i,
                   res |-> ismarkercell(fcells[i], fmarker.s)]
    /\ UNCHANGED <<fcells, fmarker>>

\* ------------------------------------------- converters called on one cell
CodeSources ==
    { <<CodeMarker>>, <<<<"x", NL>>, CodeMarker \o <<NL>>, <<"y">>>>, <<<<"x">>>>, <<>>,
      <<CodeMarker \o <<" ">>>>, <<<<" ">> \o CodeMarker, <<"y">>>> }
CodeOutputs ==
    { <<>>, <<TextOut(<<X1>>)>>, <<NoTextOut>>,
      <<NoTextOut, TextOut(<<<<"a">>, <<"b">>>>)>>,
      <<TextOut(<<<<"a", NL>>>>), NoTextOut, TextOut(<<<<"b", NL>>, <<"c">>>>)>> }

ConvPool ==
    { mkcell("code", "source", s, o, 0) : s \in CodeSources, o \in CodeOutputs }
    \cup { mkcell("code", "input", <<CodeMarker>>, <<TextOut(<<X1>>)>>, 0) }
    \cup { mkcell(t, "source", s, <<>>, 0) :
             t \in {"raw", "markdown"},
             s \in { <<>>, <<<<"a">>, <<"b">>>>, <<<<"a">>>>, <<<<"e", "n", "d", NL>>>>,
                     <<H2Methods \o <<NL>>, <<"t">>>>, <<<<"#">>>>,
                     <<<<" ", "#", " ", "x">>>>,
                     <<<<"t", NL>>, <<"#", "#", "#", " ", "A", " ", "b", NL>>, <<"u">>>>,
                     <<<<"#", "#", " ", NL>>, <<"t">>>>,
                     <<<<"#", "#", "#", "#", "#", "#", "x">>>>,
                     <<<<"#", "#", "#", "#", "#", "#", "#", " ", "x">>>>,
                     <<<<"a", "#", "b", NL>>, <<" ", NL>>, <<"t">>>> } }
    \cup { mkcell("heading", "source", s, <<>>, l) :
             s \in { <<Methods>>, <<<<"A", " ">>, <<"b">>>> }, l \in 1..7 }

kInit == ccell \in ConvPool /\ chist = <<>>
kIdle == ccell = mkcell("raw", "source", <<>>, <<>>, 0) /\ chist = <<>>

\* one call conv(cell): what was called, the cell before, and the result
called(name, res) ==
    /\ Len(chist) < MaxCalls
    /\ chist' = Append(chist, [conv |-> name, before |-> ccell, res |-> res])
    /\ ccell' = res.cell

ApplyIgnore == called("Ignore", IgnoreConverter(ccell))

ApplyLiteralSource ==
    /\ ccell.cell_type \in {"raw", "markdown"}
    /\ called("LiteralSource", LiteralSourceConverter(ccell))

ApplyMarkedCodeOutput ==
    /\ ccell.cell_type = "code"
    /\ called("MarkedCodeOutput", MarkedCodeOutputConverter(CodeMarker, ccell))

ApplyLatexHeading ==
    /\ ccell.cell_type = "heading"
    /\ called("LatexHeading", LatexHeadingConverter(ccell))

ApplyMinimalMarkdown ==
    /\ ccell.cell_type \in {"raw", "markdown"}
    /\ called("MinimalMarkdown", MinimalMarkdownConverter(ccell))

\* --------------------------------- one title given to both heading converters
TitleChars == {"a", "A", " ", ",", "#", NL, "2"}
Titles == SeqUpTo(TitleChars, MaxTitleLen) \cup {ResultsPart2, Methods}

Pending == [err |-> "pending", lines |-> <<>>, cell |-> mkcell("", "none", <<>>, <<>>, 0)]

lInit == ltitle \in Titles /\ llevel \in 1..Len(latexlevels) /\ lhead = Pending /\ lmd = Pending
lIdle == ltitle = <<>> /\ llevel = 1 /\ lhead = Pending /\ lmd = Pending

\* a heading cell of that level whose source is the title
HeadingCell == mkcell("heading", "source", <<ltitle>>, <<>>, llevel)

\* a markdown cell whose one line is that many '#', a space and the title
MarkdownCell ==
    mkcell("markdown", "source", <<[i \in 1..llevel |-> "#"] \o <<" ">> \o ltitle>>, <<>>, 0)

HeadingOfTitle ==
    /\ lhead = Pending
    /\ lhead' = LatexHeadingConverter(HeadingCell)
    /\ UNCHANGED <<ltitle, llevel, lmd>>

MarkdownOfTitle ==
    /\ lmd = Pending
    /\ lmd' = MinimalMarkdownConverter(MarkdownCell)
    /\ UNCHANGED <<ltitle, llevel, lhead>>

\* ---------------------------------------------------------- specifications
\* NotebookConverter.convert
Init == cInit /\ fIdle /\ kIdle /\ lIdle
Next ==
    \/ ResolveRange /\ UNCHANGED <<fvars, kvars, lvars>>
    \/ OpenSink /\ UNCHANGED <<fvars, kvars, lvars>>
    \/ WritePrefix /\ UNCHANGED <<fvars, kvars, lvars>>
    \/ ConvertCell /\ UNCHANGED <<fvars, kvars, lvars>>
    \/ WriteSuffix /\ UNCHANGED <<fvars, kvars, lvars>>
Spec == Init /\ [][Next]_vars

\* the cell matcher
InitFind == cIdle /\ fInit /\ kIdle /\ lIdle
NextFind ==
    \/ FindCell /\ UNCHANGED <<cvars, kvars, lvars>>
    \/ IsMarkerCell /\ UNCHANGED <<cvars, kvars, lvars>>
SpecFind == InitFind /\ [][NextFind]_vars

\* the converters
InitConv == cIdle /\ fIdle /\ kInit /\ lIdle
NextConv ==
    \/ ApplyIgnore /\ UNCHANGED <<cvars, fvars, lvars>>
    \/ ApplyLiteralSource /\ UNCHANGED <<cvars, fvars, lvars>>
    \/ ApplyMarkedCodeOutput /\ UNCHANGED <<cvars, fvars, lvars>>
    \/ ApplyLatexHeading /\ UNCHANGED <<cvars, fvars, lvars>>
    \/ ApplyMinimalMarkdown /\ UNCHANGED <<cvars, fvars, lvars>>
SpecConv == InitConv /\ [][NextConv]_vars

\* the labels of the two heading converters
InitLabel == cIdle /\ fIdle /\ kIdle /\ lInit
NextLabel ==
    \/ HeadingOfTitle /\ UNCHANGED <<cvars, fvars, kvars>>
    \/ MarkdownOfTitle /\ UNCHANGED <<cvars, fvars, kvars>>
SpecLabel == InitLabel /\ [][NextLabel]_vars

\* the five-cell notebook of the round-trip scenario and its variants
Intro == <<"i", "n", "t", "r", "o">>
End == <<"e", "n", "d">>

RTDoc(level, marked, outs) ==
    << mkcell("markdown", "source", <<Intro>>, <<>>, 0),
       mkcell("heading", "source", <<H2Methods>>, <<>>, level),
       mkcell("code", "source", <<<<"y">>>>, <<TextOut(<<<<"z">>>>)>>, 0),
       mkcell("code", "source", marked, outs, 0),
       mkcell("raw", "source", <<End>>, <<>>, 0) >>

RoundTripDoc == RTDoc(2, <<CodeMarker>>, <<TextOut(<<X1>>)>>)

RoundTripDocs ==
    { RTDoc(l, m, o) :
        l \in 1..Len(latexlevels),
        m \in { <<CodeMarker>>, <<CodeMarker \o <<NL>>, <<"w">>>> },
        o \in { <<TextOut(<<X1>>)>>, <<NoTextOut, TextOut(<<X1>>)>> } }

InitRoundTrip ==
    /\ cEntry
    /\ nbcells \in RoundTripDocs
    /\ startM = IntMarker(DefaultStart)
    /\ stopM = IntMarker(DefaultStop)
    /\ fIdle /\ kIdle /\ lIdle
NextRoundTrip ==
    \/ ResolveRange /\ UNCHANGED <<fvars, kvars, lvars>>
    \/ OpenSink /\ UNCHANGED <<fvars, kvars, lvars>>
    \/ WritePrefix /\ UNCHANGED <<fvars, kvars, lvars>>
    \/ ConvertCell /\ UNCHANGED <<fvars, kvars, lvars>>
    \/ WriteSuffix /\ UNCHANGED <<fvars, kvars, lvars>>
SpecRoundTrip == InitRoundTrip /\ [][NextRoundTrip]_vars

\* ================================================================== claims
Min(a, b) == IF a < b THEN a ELSE b

\* find_cell of start or of stop raised, or start came after stop: convert
\* ended before the with block
ResolutionFailed == pc = "failed" /\ sink = "unopened"

\* sel holds the cells a <= k < Min(b, len(cells)) of the notebook, in order
\* (the cells themselves as loaded, as long as none was converted)
SelectedIs(a, b) ==
    LET e == Min(b, Len(nbcells))
    IN /\ Len(sel) = (IF e > a THEN e - a ELSE 0)
       /\ pc \in {"open", "prefix"} =>
            \A j \in 1..Len(sel) : sel[j] = nbcells[a + j]

\* C1: with the default markers (start = 0, stop = 100000000) convert
\* resolves the range [0, len(cells)) and selects the whole cell sequence in
\* its order, for every cell sequence, the empty one included.
C1_DefaultRangeIsWhole ==
    (startM = IntMarker(DefaultStart) /\ stopM = IntMarker(DefaultStop) /\ pc # "resolve")
        => /\ ~ResolutionFailed
           /\ start = 0
           /\ stop = Len(nbcells)
           /\ Len(sel) = Len(nbcells)
           /\ pc \in {"open", "prefix"} => sel = nbcells

C1_Witness ==
    /\ startM = IntMarker(DefaultStart) /\ stopM = IntMarker(DefaultStop)
    /\ pc = "open" /\ Len(nbcells) = MaxCells /\ sel = nbcells

\* The first line of the cell, where it has one
HasFirstLine(cell) == cell.key # "none" /\ Len(cell.source) > 0

\* t is s without its leading '#' and space characters
Stripped(s, t) ==
    \E k \in 0..Len(s) :
        /\ t = SubSeq(s, k + 1, Len(s))
        /\ \A j \in 1..k : s[j] \in {"#", " "}
        /\ k < Len(s) => s[k + 1] \notin {"#", " "}

\* The marker m matches the cell, as the spec states it: for a markdown cell
\* the first line and the marker agree once both are stripped, for any other
\* cell they are equal
Matches(cell, m) ==
    LET line == cell.source[1]
    IN IF cell.cell_type = "markdown"
       THEN \E k \in 0..Len(line) :
                LET t == SubSeq(line, k + 1, Len(line))
                IN Stripped(line, t) /\ Stripped(m, t)
       ELSE line = m

\* i is the (1-based) position of the first cell the marker m matches
FirstMatch(cells, m, i) ==
    /\ HasFirstLine(cells[i]) /\ Matches(cells[i], m)
    /\ \A j \in 1..(i - 1) : ~(HasFirstLine(cells[j]) /\ Matches(cells[j], m))

\* C2: for every cell sequence and every text marker whose first matching
\* cell is at index i, find_cell returns i + 1 with skip = 1 (start marker)
\* and i with skip = 0 (stop marker), whatever cells follow or precede it.
C2_FirstMatchResolved ==
    (fcall.op = "find_cell" /\ fmarker.kind = "str")
        => \A i \in 1..Len(fcells) :
             FirstMatch(fcells, fmarker.s, i) => fcall.res = Ok((i - 1) + fcall.skip)

\* C3: for integer markers find_cell returns the integer itself and convert
\* selects exactly the cells start <= k < min(stop, len(cells)), for every
\* 0 <= start <= stop; a stop past the end is clamped and is no error.
C3_IntegerRangeEveryStart ==
    (startM.kind = "int" /\ stopM.kind = "int" /\ 0 <= startM.n
       /\ startM.n <= stopM.n /\ pc # "resolve")
        => /\ ~ResolutionFailed
           /\ start = startM.n
           /\ SelectedIs(startM.n, stopM.n)

\* C3, amended: the same for every 0 <= start <= min(stop, len(cells)); a
\* start past the clamped stop ends convert with the RangeError.
C3_IntegerRangeUpToClampedStop ==
    (startM.kind = "int" /\ stopM.kind = "int" /\ 0 <= startM.n /\ pc # "resolve")
        => IF startM.n <= Min(stopM.n, Len(nbcells))
           THEN /\ ~ResolutionFailed
                /\ start = startM.n
                /\ stop = Min(stopM.n, Len(nbcells))
                /\ SelectedIs(startM.n, stopM.n)
           ELSE ResolutionFailed /\ err = "RangeError"

C3_Witness ==
    /\ startM.kind = "int" /\ stopM.kind = "int"
    /\ 0 < startM.n /\ startM.n < Len(nbcells) /\ Len(nbcells) < stopM.n
    /\ stopM.n # DefaultStop
    /\ pc = "open" /\ Len(sel) = Len(nbcells) - startM.n

\* C4: whenever the resolved start exceeds the resolved (clamped) stop,
\* convert fails with the RangeError, and a convert that failed so has not
\* opened the output file and has written no line.
C4_RangeErrorBeforeOutput ==
    LET r1 == find_cell(nbcells, startM, 1)
        r2 == find_cell(nbcells, stopM, 0)
    IN /\ (pc # "resolve" /\ r1.err = "none" /\ r2.err = "none"
             /\ r1.val > Min(r2.val, Len(nbcells)))
            => pc = "failed" /\ err = "RangeError"
       /\ err = "RangeError"
            => sink = "unopened" /\ out = <<>> /\ file_before = NoFile
               /\ file_after = NoFile /\ idx = 0

C4_Witness ==
    /\ startM.kind = "str" /\ stopM.kind = "str"
    /\ pc = "failed" /\ err = "RangeError"
    /\ stop >= 1 /\ start >= stop + 2

\* C5: for every cell sequence, cells with an empty source list included, a
\* text marker that matches no cell makes find_cell fail with NotFound and
\* with nothing else.
C5_NoMatchIsNotFound ==
    (fcall.op = "find_cell" /\ fmarker.kind = "str"
       /\ ~\E i \in 1..Len(fcells) : HasFirstLine(fcells[i]) /\ Matches(fcells[i], fmarker.s))
        => fcall.res.err = "NotFound"

RECURSIVE TextOf(_)
TextOf(outs) ==
    IF outs = <<>> THEN <<>>
    ELSE LET n == Len(outs)
             front == TextOf(SubSeq(outs, 1, n - 1))
         IN IF outs[n].has_text THEN front \o outs[n].text ELSE front

\* ls is t with a line break appended to its last line (and empty if t is)
BreakAppended(ls, t) ==
    /\ Len(ls) = Len(t)
    /\ \A j \in 1..Len(t) : ls[j] = (IF j = Len(t) THEN t[j] \o <<NL>> ELSE t[j])

HasMarkerLine(cell) ==
    \E i \in 1..Len(cell.source) :
        cell.source[i] = CodeMarker \/ cell.source[i] = CodeMarker \o <<NL>>

\* C7: MarkedCodeOutputConverter gives the empty sequence for a code cell
\* none of whose source lines is the marker (with or without a line break),
\* whatever its outputs; otherwise it gives the text lines of the outputs
\* that have a text field, in output order, the last one with a line break
\* appended.
C7_MarkedOutputIffMarker ==
    \A i \in 1..Len(chist) :
        chist[i].conv = "MarkedCodeOutput" =>
            /\ chist[i].res.err = "none"
            /\ IF HasMarkerLine(chist[i].before)
               THEN BreakAppended(chist[i].res.lines, TextOf(chist[i].before.outputs))
               ELSE chist[i].res.lines = <<>>

C7_Witness ==
    \E i \in 1..Len(chist) :
        /\ chist[i].conv = "MarkedCodeOutput"
        /\ HasMarkerLine(chist[i].before)
        /\ \E j \in 1..Len(chist[i].before.outputs) : ~chist[i].before.outputs[j].has_text
        /\ chist[i].res.lines = <<<<"a", NL>>, <<"b", NL>>, <<"c", NL>>>>

\* C8: LiteralSourceConverter gives a single newline for an empty source
\* list, and for a non-empty one the same lines in the same order, the last
\* one with a line break appended.
C8_LiteralCopy ==
    \A i \in 1..Len(chist) :
        chist[i].conv = "LiteralSource" =>
            /\ chist[i].res.err = "none"
            /\ IF chist[i].before.source = <<>>
               THEN chist[i].res.lines = <<<<NL>>>>
               ELSE BreakAppended(chist[i].res.lines, chist[i].before.source)

C8_Witness ==
    \E i \in 1..Len(chist) :
        /\ chist[i].conv = "LiteralSource"
        /\ chist[i].before.source = <<<<"a">>, <<"b">>>>
        /\ chist[i].res.lines = <<<<"a">>, <<"b", NL>>>>

\* C9: every converter leaves the cell it is given unchanged, and converting
\* the same cell twice with the same converter gives the same lines.
C9_ConvertersReadOnly ==
    /\ \A i \in 1..Len(chist) : chist[i].res.cell = chist[i].before
    /\ \A i, j \in 1..Len(chist) :
         chist[i].conv = chist[j].conv => chist[i].res.lines = chist[j].res.lines

\* the label the spec states for a title: the word characters of the title,
\* lowercased
IsLabelOf(label, title) ==
    label = <<"\\label{sect:">>
            \o [k \in 1..Len(SelectSeq(title, LAMBDA c : c \in WordChars)) |->
                  lowerchar(SelectSeq(title, LAMBDA c : c \in WordChars)[k]) ]
            \o <<"}", NL>>

LoadedSel == SubSeq(nbcells, start + 1, stop)

\* the converted lines of the first n of the cells, cell after cell
RECURSIVE ConvertedLines(_, _)
ConvertedLines(cells, n) ==
    IF n = 0 THEN <<>>
    ELSE ConvertedLines(cells, n - 1) \o cellconverters(cells[n]).lines

IsPrefix(a, b) == Len(a) <= Len(b) /\ SubSeq(b, 1, Len(a)) = a

\* everything a conversion that runs to its end writes
WholeDocument ==
    file_before.lines \o ConvertedLines(LoadedSel, Len(LoadedSel)) \o file_after.lines

\* C11: the output is, in this order and with nothing in between, the lines
\* of the prefix file, the converted lines of each selected cell in cell
\* order, and the lines of the suffix file: nothing is written before the
\* sink is open, after the cells 1..idx the output is the prefix followed by
\* their lines, at the end it is the whole document, and what a failed run
\* has written is a beginning of it.
C11_AssemblyOrder ==
    /\ pc \in {"resolve", "open", "prefix"} => out = <<>>
    /\ pc = "cells" => out = file_before.lines \o ConvertedLines(LoadedSel, idx)
    /\ pc = "done" => out = WholeDocument
    /\ pc = "failed" => IsPrefix(out, WholeDocument)

C11_Witness ==
    /\ pc = "done"
    /\ file_before.given /\ file_after.given
    /\ Len(sel) >= 2
    /\ cellconverters(LoadedSel[1]).lines # <<>>
    /\ cellconverters(LoadedSel[2]).lines # <<>>
    /\ LoadedSel[1] # LoadedSel[2]
    /\ out = WholeDocument

\* some line of the output is ls
OutHas(ls) == \E i \in 1..Len(out) : out[i] = ls

\* no source line of a code cell of the notebook is a line of the output
NoCodeSource ==
    \A j \in 1..Len(nbcells) :
        nbcells[j].cell_type = "code" =>
            \A k \in 1..Len(nbcells[j].source) : ~OutHas(nbcells[j].source[k])

\* 'intro', 'X=1' and 'end' come in cell order, each with its line break
IntroOutputEnd ==
    \E i, j, k \in 1..Len(out) :
        /\ i < j /\ j < k
        /\ out[i] = Intro /\ out[i + 1] = <<NL>>
        /\ out[j] = X1 \o <<NL>>
        /\ out[k] = End \o <<NL>>

\* the round-trip scenario has run to its end
RoundTripDone ==
    /\ nbcells = RoundTripDoc
    /\ startM = IntMarker(DefaultStart) /\ stopM = IntMarker(DefaultStop)
    /\ pc = "done"

\* C12: the five-cell document converted with the default range and table
\* gives the heading directive and the label for 'Methods', none of the
\* source lines of the code cells, 'X=1' with a line break, and 'intro' and
\* 'end' each followed by a line break, in cell order.
C12_RoundTripHeadingForMethods ==
    RoundTripDone
        => /\ OutHas(headingline("section", Methods))
           /\ OutHas(<<"\\label{sect:", "m", "e", "t", "h", "o", "d", "s", "}", NL>>)
           /\ NoCodeSource
           /\ IntroOutputEnd

\* C12, amended: the same, the heading directive being the one of level 2
\* whose title is the whole source text of the heading cell, '## Methods';
\* between the prefix and the suffix the output is exactly these ten lines.
C12_RoundTripTitleIsSource ==
    RoundTripDone
        => /\ OutHas(<<"\\", "section", "{">> \o H2Methods \o <<"}", NL>>)
           /\ OutHas(<<"\\label{sect:", "m", "e", "t", "h", "o", "d", "s", "}", NL>>)
           /\ NoCodeSource
           /\ IntroOutputEnd
           /\ out = file_before.lines
                    \o << Intro, <<NL>>, <<NL>>,
                          <<NL>>, <<NL>>,
                          <<"\\", "section", "{">> \o H2Methods \o <<"}", NL>>,
                          <<"\\label{sect:", "m", "e", "t", "h", "o", "d", "s", "}", NL>>,
                          <<NL>>,
                          X1 \o <<NL>>,
                          End \o <<NL>> >>
                    \o file_after.lines

C12_Witness == RoundTripDone /\ ~file_before.given /\ ~file_after.given /\ Len(out) = 10

\* the keys of NotebookConverter.cellconverters
KnownTypes == {"code", "heading", "markdown", "raw"}

\* C13: a selected cell whose type has no converter ends convert with the
\* KeyError of the table lookup at that cell: the loop never gets past such a
\* cell, and when it fails there the output is the prefix and the lines of
\* the cells before it, nothing of that cell, of a later cell or of the
\* suffix.
C13_UnknownCellTypeStops ==
    /\ pc \in {"cells", "done"} =>
         \A j \in 1..idx : LoadedSel[j].cell_type \in KnownTypes
    /\ pc = "done" => idx = Len(sel)
    /\ (pc = "failed" /\ err = "KeyError") =>
         /\ idx < Len(sel)
         /\ sel[idx + 1].cell_type \notin KnownTypes
         /\ \A j \in 1..idx : LoadedSel[j].cell_type \in KnownTypes
         /\ out = file_before.lines \o ConvertedLines(LoadedSel, idx)
         /\ file_after = NoFile
    /\ (pc = "failed" /\ sink = "closed" /\ err # "ValueError" /\ idx < Len(sel)
          /\ sel[idx + 1].cell_type \notin KnownTypes)
         => err = "KeyError"

C13_Witness ==
    /\ pc = "failed" /\ err = "KeyError"
    /\ file_before.given
    /\ idx >= 1 /\ idx + 1 < Len(sel)
    /\ Len(out) > Len(file_before.lines)

\* C14: once outfile is open it is closed on every way out of convert: a run
\* that has ended (normally, on a line that cannot be encoded, on a failing
\* converter or on an unknown cell type) has closed it, a run that holds it
\* open has not ended (the prefix, a cell of the loop or the suffix is still
\* to be written), and a ValueError carries the line that could not be
\* encoded, which is the next line of the document and was not written.
C14_SinkClosedOnEveryExit ==
    /\ pc \in {"done", "failed"} => sink # "open"
    /\ (pc \in {"done", "failed"} /\ sink = "unopened") => (err # "none" /\ out = <<>>)
    /\ pc \in {"prefix", "cells"} => sink = "open"
    /\ sink = "open" => pc \in {"prefix", "cells"}
    /\ pc = "prefix" => ENABLED WritePrefix
    /\ pc = "cells" => (idx <= Len(sel) /\ (idx = Len(sel) => ENABLED WriteSuffix))
    /\ pc = "done" => (sink = "closed" /\ err = "none")
    /\ err = "ValueError" =>
         /\ pc = "failed" /\ sink = "closed"
         /\ unencodable(errline)
         /\ IsPrefix(out \o <<errline>>, WholeDocument)
    /\ err \notin {"none", "ValueError"} => errline = <<>>

C14_Witness ==
    /\ pc = "failed" /\ err = "ValueError" /\ sink = "closed"
    /\ idx >= 1 /\ file_before.given
    /\ errline = <<"a", Unencodable>>
    /\ file_after = NoFile

\* the lines of a list, one after the other, as one string
RECURSIVE Joined(_)
Joined(lines) ==
    IF lines = <<>> THEN <<>>
    ELSE Joined(SubSeq(lines, 1, Len(lines) - 1)) \o lines[Len(lines)]

\* the six level names, 'Heading 1' first
LevelName(k) ==
    CASE k = 1 -> "chapter"
      [] k = 2 -> "section"
      [] k = 3 -> "subsection"
      [] k = 4 -> "subsubsection"
      [] k = 5 -> "paragraph"
      [] k = 6 -> "subparagraph"

\* the heading directive of level k with that title
Directive(k, title) == <<"\\", LevelName(k), "{">> \o title \o <<"}", NL>>

\* C15: for a heading cell of level L in 1..6 LatexHeadingConverter gives
\* exactly five lines: two blank lines, the directive of the L-th level name
\* with all source lines joined as the title, the label line, a blank line;
\* for a level beyond the six names it fails and gives no line.
C15_HeadingFiveLines ==
    \A i \in 1..Len(chist) :
        chist[i].conv = "LatexHeading" =>
            LET c == chist[i].before
                r == chist[i].res
            IN IF c.level \in 1..6
               THEN /\ r.err = "none"
                    /\ Len(r.lines) = 5
                    /\ r.lines[1] = <<NL>> /\ r.lines[2] = <<NL>>
                    /\ r.lines[3] = Directive(c.level, Joined(c.source))
                    /\ IsLabelOf(r.lines[4], Joined(c.source))
                    /\ r.lines[5] = <<NL>>
               ELSE c.level > 6 => (r.err = "IndexError" /\ r.lines = <<>>)

C15_Witness ==
    \E i \in 1..Len(chist) :
        /\ chist[i].conv = "LatexHeading"
        /\ chist[i].before.level = 3
        /\ chist[i].before.source = <<<<"A", " ">>, <<"b">>>>
        /\ chist[i].res.lines[3] = <<"\\", "subsection", "{", "A", " ", "b", "}", NL>>
        /\ chist[i].res.lines[4] = <<"\\label{sect:", "a", "b", "}", NL>>

\* the line begins with the heading marker '#'
BeginsWithHash(line) == line # <<>> /\ line[1] = "#"

\* the number k of '#' the line begins with
HashRun(line) ==
    CHOOSE k \in 0..Len(line) :
        /\ \A j \in 1..k : line[j] = "#"
        /\ k < Len(line) => line[k + 1] # "#"

\* what follows the run of '#' and the whitespace after it
AfterMarker(line) ==
    LET k == HashRun(line)
        w == CHOOSE n \in k..Len(line) :
                 /\ \A j \in (k + 1)..n : line[j] \in {" ", NL, "\t"}
                 /\ n < Len(line) => line[n + 1] \notin {" ", NL, "\t"}
    IN SubSeq(line, w + 1, Len(line))

\* the title of a heading line: that remainder without a trailing line break
TitleOf(line) ==
    LET t == AfterMarker(line)
    IN IF t # <<>> /\ t[Len(t)] = NL THEN SubSeq(t, 1, Len(t) - 1) ELSE t

\* the label line of a title
LabelOf(title) ==
    <<"\\label{sect:">>
    \o [k \in 1..Len(SelectSeq(title, LAMBDA c : c \in WordChars)) |->
          lowerchar(SelectSeq(title, LAMBDA c : c \in WordChars)[k]) ]
    \o <<"}", NL>>

\* the lines the spec gives for the source lines of a markdown cell: two
\* lines for a line that begins with '#', the line itself otherwise
RECURSIVE MarkupOf(_)
MarkupOf(lines) ==
    IF lines = <<>> THEN <<>>
    ELSE LET n == Len(lines)
             last == lines[n]
         IN MarkupOf(SubSeq(lines, 1, n - 1))
            \o (IF BeginsWithHash(last)
                THEN <<Directive(HashRun(last), TitleOf(last)), LabelOf(TitleOf(last))>>
                ELSE <<last>>)

\* a line the code does not take for a heading: no '#' after its leading
\* whitespace
PlainLine(line) ==
    \A j \in 1..Len(line) :
        line[j] = "#" => \E m \in 1..(j - 1) : line[m] \notin {" ", NL, "\t", "#"}

\* a call of MinimalMarkdownConverter on a cell with source lines
MarkdownCall(i) == chist[i].conv = "MinimalMarkdown" /\ chist[i].before.source # <<>>

\* C16: every source line that begins with k '#' (1 <= k <= 6) is replaced
\* by exactly two lines, the directive of the k-th level name whose title is
\* the rest of the line without its trailing line break, and the label of
\* that title, also when nothing follows the run of '#'. (Stated for the
\* cells whose other lines hold no '#' at their beginning or after leading
\* whitespace.)
C16_HeadingLineGivesTwoLines ==
    \A i \in 1..Len(chist) :
        (/\ MarkdownCall(i)
         /\ \A j \in 1..Len(chist[i].before.source) :
              LET line == chist[i].before.source[j]
              IN \/ BeginsWithHash(line) /\ HashRun(line) \in 1..6
                 \/ PlainLine(line))
        => /\ chist[i].res.err = "none"
           /\ chist[i].res.lines = MarkupOf(chist[i].before.source) \o <<<<NL>>, <<NL>>>>

\* C17: every source line that does not begin with '#' is copied verbatim at
\* its place, the output of a cell with source lines ends with two blank
\* lines after the converted lines, and a cell without source lines gives a
\* single blank line. (Stated for the cells whose lines that begin with '#'
\* have 1 to 6 of them and a title.)
C17_OtherLinesVerbatim ==
    \A i \in 1..Len(chist) :
        chist[i].conv = "MinimalMarkdown" =>
            IF chist[i].before.source = <<>>
            THEN chist[i].res.err = "none" /\ chist[i].res.lines = <<<<NL>>>>
            ELSE (\A j \in 1..Len(chist[i].before.source) :
                    LET line == chist[i].before.source[j]
                    IN BeginsWithHash(line) =>
                         (HashRun(line) \in 1..6 /\ TitleOf(line) # <<>>))
                 => /\ chist[i].res.err = "none"
                    /\ chist[i].res.lines
                         = MarkupOf(chist[i].before.source) \o <<<<NL>>, <<NL>>>>

====
